---- MODULE Spec2Model ----
(***************************************************************************)
(* Model of the subscribe engine of the PubNub client in src/src/lib.rs:   *)
(* PubNub::subscribe, Drop for Subscription, the Subscription stream,      *)
(* SubscribeLoop::new / SubscribeLoop::run, subscribe_request and          *)
(* encode_channels.  The server and the HTTP transport are the             *)
(* environment: they answer every long-poll with a batch and a cursor,     *)
(* with a body/decoding error, or with a connection error.                 *)
(***************************************************************************)
EXTENDS Integers, Sequences, FiniteSets, TLC

(* ------------------------------ bounds --------------------------------- *)
MaxLoops == 2      \* subscribe loops that may ever be spawned
MaxHandles == 2    \* subscribe() calls
MaxMsgs == 2       \* messages the server hands out in total
MaxBatch == MaxMsgs    \* messages in one long-poll response
MaxTT == MaxMsgs       \* largest cursor the server returns

(* -------------------------- program constants -------------------------- *)
ChannelCapacity == 10   \* mpsc::channel(10) of a consumer queue
PipeCapacity == 10      \* mpsc::channel(10) of each direction of the pipe

Loops == 1..MaxLoops

(* Channel names are strings, modelled as sequences of characters. *)
ChanA == <<"a">>
ChanB == <<"b", "-">>
Channels == {ChanA, ChanB}
NoRoute == <<>>            \* Message.route = None

(* utf8_percent_encode(name, NON_ALPHANUMERIC): every byte that is not an  *)
(* ASCII letter or digit becomes %XX.                                      *)
Alphanumeric == {"a", "b", "0", "1"}
HexOf(ch) == IF ch = "-" THEN <<"2", "D">> ELSE IF ch = "," THEN <<"2", "C">> ELSE <<"2", "E">>
EncodeCharRaw(ch) == <<ch>>
EncodeChar(ch) == IF ch \in Alphanumeric THEN <<ch>> ELSE <<"%">> \o HexOf(ch)

RECURSIVE utf8_percent_encode(_)
utf8_percent_encode(s) ==
    IF s = <<>> THEN <<>> ELSE EncodeChar(Head(s)) \o utf8_percent_encode(Tail(s))

(* [..].join("%2C") over the encoded names in the order `keys`. *)
RECURSIVE JoinEncoded(_)
JoinEncoded(keys) ==
    IF keys = <<>> THEN <<>>
    ELSE IF Len(keys) = 1 THEN utf8_percent_encode(keys[1])
    ELSE utf8_percent_encode(keys[1]) \o <<"%", "2", "C">> \o JoinEncoded(Tail(keys))

(* The orders in which HashMap::keys() may yield the key set S. *)
KeyOrders(S) ==
    {o \in [1..Cardinality(S) -> S] : \A i, j \in 1..Cardinality(S) : i # j => o[i] # o[j]}

(* encode_channels: the possible results for the channel map m. *)
encode_channels(m) == {JoinEncoded(o) : o \in KeyOrders(DOMAIN m)}

(* The subscribe URL: only the channel segment and the tt query vary. *)
SubscribeUrl(enc, tt) == [channels |-> enc, tt |-> tt]

(* Timetoken::default().t is "0"; a cursor is modelled by its number. *)
DefaultTimetoken == 0

(* A message as decoded by subscribe_request; id stands for p.t. *)
Message(route, channel, id) == [route |-> route, channel |-> channel, id |-> id]

(* message.route.clone().unwrap_or(message.channel.clone()) *)
RouteOfChannel(m) == m.channel
RouteOf(m) == IF m.route = NoRoute THEN m.channel ELSE m.route

(* The shapes of message the server may put in a response. *)
MessageShapes ==
    { [route |-> NoRoute, channel |-> ChanB],
      [route |-> ChanA, channel |-> ChanB] }

VARIABLES
    pipe,              \* PubNub.pipe: 0 = None, else the loop it talks to
    clientAlive,       \* the PubNub value has not been dropped
    clientPc,          \* "idle", or "wait_ready" inside subscribe()
    nloops,            \* loops spawned so far
    loopPc,            \* per loop: "none","poll","ready","deliver","stopped","panicked"
    timetoken,         \* per loop: the local `timetoken` of run()
    channels,          \* per loop: SubscribeLoop.channels, name -> Seq of handle
    encoded_channels,  \* per loop: SubscribeLoop.encoded_channels
    url,               \* per loop: the URL of the request in flight
    ctl,               \* per loop: messages queued towards SubscribeLoop.pipe.rx
    readyq,            \* per loop: Ready messages queued towards PubNub.pipe.rx
    batch,             \* per loop: messages of the response still to distribute
    next_timetoken,    \* per loop: cursor of the response being handled
    li,                \* per loop: index of the next listener for Head(batch)
    nh,                \* handles created so far
    hState,            \* per handle: "none","pending","live","dropped"
    hName,             \* per handle: Subscription.name
    hLoop,             \* per handle: the loop Subscription.tx leads to
    hVia,              \* per handle: how subscribe() made it: "spawn","add","add_failed"
    hReady,            \* per handle: subscribe() got Some(Ready) before it returned
    hSince,            \* per handle: messages its loop had received when subscribe() returned
    queue,             \* per handle: its consumer queue
    yielded,           \* per handle: what next() has returned so far
    got,               \* per loop: the messages of every successful response
    nmsg,              \* messages handed out by the server
    failed,            \* per loop: the request before the one in flight failed
    exit_tx,           \* the builder's subscribe_loop_exit_tx option is Some
    exitq,             \* notifications sent on the exit queue so far
    readySent,         \* per loop: Ready messages it has sent so far
    sendErrs,          \* per loop: "Delivery error" lines it has logged
    limits             \* what the client and the server do at most in this run

vars == << pipe, clientAlive, clientPc, nloops, loopPc, timetoken, channels,
           encoded_channels, url, ctl, readyq, batch, next_timetoken, li, nh,
           hState, hName, hLoop, hVia, hReady, hSince, queue, yielded, got, nmsg,
           failed, exit_tx, exitq, readySent, sendErrs, limits >>

configVars == << exit_tx, limits >>
clientVars == << pipe, clientAlive, clientPc, nloops, configVars >>
handleVars == << nh, hState, hName, hLoop, hVia, hReady, hSince >>
serverVars == << got, nmsg, failed >>

EmptyMap == [c \in {} |-> <<>>]

(* The handles of a run: one for each subscribe() call the client may make. *)
Handles == 1..limits.handles

(* A run is bounded by what the client and the server do in it: the loops   *)
(* and handles the client makes, the messages the server hands out, the     *)
(* smallest and largest response, the shapes of its messages, whether the   *)
(* server may answer with the cursor "0", whether the error log is kept,    *)
(* and the channel names the client subscribes to.                          *)
Typical ==
    [loops |-> MaxLoops, handles |-> MaxHandles, msgs |-> MaxMsgs, least |-> 0,
     batch |-> MaxBatch,
     shapes |-> MessageShapes, zero |-> FALSE, log |-> FALSE, names |-> Channels]

(* The state after PubNubBuilder::build, in a run bounded by lim and with   *)
(* the exit queue configured or not.                                        *)
Start(lim, etx) ==
    /\ limits = lim
    /\ exit_tx = etx
    /\ exitq = 0
    /\ readySent = [l \in Loops |-> 0]
    /\ sendErrs = [l \in Loops |-> 0]
    /\ pipe = 0
    /\ clientAlive = TRUE
    /\ clientPc = "idle"
    /\ nloops = 0
    /\ loopPc = [l \in Loops |-> "none"]
    /\ timetoken = [l \in Loops |-> DefaultTimetoken]
    /\ channels = [l \in Loops |-> EmptyMap]
    /\ encoded_channels = [l \in Loops |-> <<>>]
    /\ url = [l \in Loops |-> SubscribeUrl(<<>>, DefaultTimetoken)]
    /\ ctl = [l \in Loops |-> <<>>]
    /\ readyq = [l \in Loops |-> 0]
    /\ batch = [l \in Loops |-> <<>>]
    /\ next_timetoken = [l \in Loops |-> DefaultTimetoken]
    /\ li = [l \in Loops |-> 1]
    /\ nh = 0
    /\ hState = [h \in Handles |-> "none"]
    /\ hName = [h \in Handles |-> NoRoute]
    /\ hLoop = [h \in Handles |-> 0]
    /\ hVia = [h \in Handles |-> "none"]
    /\ hReady = [h \in Handles |-> FALSE]
    /\ hSince = [h \in Handles |-> 0]
    /\ queue = [h \in Handles |-> <<>>]
    /\ yielded = [h \in Handles |-> <<>>]
    /\ got = [l \in Loops |-> <<>>]
    /\ nmsg = 0
    /\ failed = [l \in Loops |-> FALSE]

(* The default builder: subscribe_loop_exit_tx is None. *)
Init == Start(Typical, FALSE)

(* The spawned task is running (it has neither returned nor panicked). *)
Running(l) == loopPc[l] \in {"poll", "ready", "deliver"}

(* The task is over: `self` has been dropped, and with it every sender and *)
(* the receive end of the pipe.                                            *)
Terminated(l) == loopPc[l] \in {"stopped", "panicked"}

(* `if let Some(pipe) = &mut self.pipe` in PubNub::subscribe *)
HasPipeNever == FALSE
HasPipe == pipe # 0

(* The pipe's receive end held by the loop is gone: send() returns Err. *)
PipeClosed(l) == Terminated(l)

(* pipe.tx.send(..) completes: at once with Err on a closed pipe, else as   *)
(* soon as the bounded queue has room.                                      *)
CanSendControl(l) == PipeClosed(l) \/ Len(ctl[l]) < PipeCapacity

AddMessage(name, h) == [type |-> "Add", name |-> name, tx |-> h]
DropMessageUnnamed(name) == [type |-> "Drop", name |-> NoRoute, tx |-> 0]
DropMessage(name) == [type |-> "Drop", name |-> name, tx |-> 0]

(* Every sender of the loop's control queue has been dropped: PubNub.pipe   *)
(* and the tx of every Subscription made for this loop.                     *)
ControlSendersGone(l) ==
    /\ ~(clientAlive /\ pipe = l)
    /\ \A h \in Handles : hLoop[h] = l => hState[h] \in {"none", "dropped"}

(* Some sender of handle h's consumer queue is still held: by a listener    *)
(* list of a running loop or by an Add message waiting in a control queue.  *)
SenderAlive(h) ==
    \E l \in Loops :
        \/ /\ Running(l)
           /\ \E c \in DOMAIN channels[l] :
                  \E i \in 1..Len(channels[l][c]) : channels[l][c][i] = h
        \/ \E i \in 1..Len(ctl[l]) : ctl[l][i].type = "Add" /\ ctl[l][i].tx = h

(* Subscription::poll_next would return None: nothing queued, no sender. *)
StreamEnded(h) == hState[h] = "live" /\ queue[h] = <<>> /\ ~SenderAlive(h)

(* PubNub::subscribe, branch `if let Some(pipe)`: send Add to the loop. *)
SubscribeAdd(c, h) ==
    /\ CanSendControl(pipe)
    /\ ctl' = IF PipeClosed(pipe) THEN ctl
              ELSE [ctl EXCEPT ![pipe] = Append(@, AddMessage(c, h))]
    /\ hState' = [hState EXCEPT ![h] = "live"]
    /\ hName' = [hName EXCEPT ![h] = c]
    /\ hLoop' = [hLoop EXCEPT ![h] = pipe]
    /\ hVia' = [hVia EXCEPT ![h] = IF PipeClosed(pipe) THEN "add_failed" ELSE "add"]
    /\ hSince' = [hSince EXCEPT ![h] = Len(got[pipe])]
    /\ nh' = h
    /\ UNCHANGED << hReady, exitq, readySent, sendErrs >>
    /\ UNCHANGED << clientVars, loopPc, timetoken, channels, encoded_channels, url,
                    readyq, batch, next_timetoken, li, queue, yielded, serverVars >>

(* `let mut channels = HashMap::new(); let listeners =                      *)
(* channels.entry(channel).or_insert(vec![]); listeners.push(channel_tx)`   *)
InitialChannelsEmpty(c, h) == EmptyMap
InitialChannelsUnderAll(c, h) == [k \in Channels |-> <<h>>]
InitialChannels(c, h) == [k \in {c} |-> <<h>>]

(* PubNub::subscribe, branch `else`: build the pipe and the channel map,    *)
(* SubscribeLoop::new, tokio::spawn, then block on the Ready message.       *)
SubscribeSpawn(c, h) ==
    /\ nloops < limits.loops
    /\ LET l == nloops + 1
           m == InitialChannels(c, h)
       IN /\ \E enc \in encode_channels(m) :
                /\ encoded_channels' = [encoded_channels EXCEPT ![l] = enc]
                /\ url' = [url EXCEPT ![l] = SubscribeUrl(enc, DefaultTimetoken)]
          /\ channels' = [channels EXCEPT ![l] = m]
          /\ loopPc' = [loopPc EXCEPT ![l] = "poll"]
          /\ timetoken' = [timetoken EXCEPT ![l] = DefaultTimetoken]
          /\ nloops' = l
          /\ pipe' = l
          /\ hLoop' = [hLoop EXCEPT ![h] = l]
    /\ clientPc' = "wait_ready"
    /\ hState' = [hState EXCEPT ![h] = "pending"]
    /\ hName' = [hName EXCEPT ![h] = c]
    /\ hVia' = [hVia EXCEPT ![h] = "spawn"]
    /\ nh' = h
    /\ UNCHANGED << hReady, hSince, configVars, exitq, readySent, sendErrs >>
    /\ UNCHANGED << clientAlive, ctl, readyq, batch, next_timetoken, li, queue,
                    yielded, serverVars >>

(* PubNub::subscribe up to the point where it blocks or returns. *)
Subscribe(c) ==
    /\ clientAlive
    /\ clientPc = "idle"
    /\ nh < limits.handles
    /\ c \in limits.names
    /\ IF HasPipe THEN SubscribeAdd(c, nh + 1) ELSE SubscribeSpawn(c, nh + 1)

(* self.pipe.rx.next() resolves: a message is queued, or the loop's sender  *)
(* is gone.                                                                 *)
ReadyWaitOverOnReady == readyq[pipe] > 0
ReadyWaitOver == readyq[pipe] > 0 \/ Terminated(pipe)

(* block_on(self.pipe.rx.next()) returns: Some(Ready), or None once the     *)
(* loop has dropped its sender; either way subscribe() returns the handle.  *)
SubscribeReady ==
    /\ clientPc = "wait_ready"
    /\ ReadyWaitOver
    /\ readyq' = IF readyq[pipe] > 0 THEN [readyq EXCEPT ![pipe] = @ - 1] ELSE readyq
    /\ hState' = [h \in Handles |-> IF hState[h] = "pending" THEN "live" ELSE hState[h]]
    /\ hReady' = [h \in Handles |->
                     IF hState[h] = "pending" THEN readyq[pipe] > 0 ELSE hReady[h]]
    /\ hSince' = [h \in Handles |->
                     IF hState[h] = "pending" THEN Len(got[pipe]) ELSE hSince[h]]
    /\ clientPc' = "idle"
    /\ UNCHANGED << configVars, exitq, readySent, sendErrs >>
    /\ UNCHANGED << pipe, clientAlive, nloops, loopPc, timetoken, channels,
                    encoded_channels, url, ctl, batch, next_timetoken, li, nh, hName,
                    hLoop, hVia, queue, yielded, serverVars >>

(* Drop for Subscription: send Drop(name), log a failure, then the fields   *)
(* (the receive end of the consumer queue among them) are dropped.          *)
DropSubscription(h) ==
    /\ hState[h] = "live"
    /\ CanSendControl(hLoop[h])
    /\ ctl' = IF PipeClosed(hLoop[h]) THEN ctl
              ELSE [ctl EXCEPT ![hLoop[h]] = Append(@, DropMessage(hName[h]))]
    /\ hState' = [hState EXCEPT ![h] = "dropped"]
    /\ queue' = [queue EXCEPT ![h] = <<>>]
    /\ UNCHANGED << exitq, readySent, sendErrs >>
    /\ UNCHANGED << clientVars, loopPc, timetoken, channels, encoded_channels, url,
                    readyq, batch, next_timetoken, li, nh, hName, hLoop, hVia,
                    hReady, hSince, yielded, serverVars >>

(* Stream for Subscription: poll_next yields the head of the queue. *)
poll_next(h) ==
    /\ hState[h] = "live"
    /\ queue[h] # <<>>
    /\ yielded' = [yielded EXCEPT ![h] = Append(@, Head(queue[h]))]
    /\ queue' = [queue EXCEPT ![h] = Tail(@)]
    /\ UNCHANGED << exitq, readySent, sendErrs >>
    /\ UNCHANGED << clientVars, loopPc, timetoken, channels, encoded_channels, url,
                    ctl, readyq, batch, next_timetoken, li, handleVars, serverVars >>

(* The PubNub value goes out of scope: both ends of its pipe are dropped. *)
DropClient ==
    /\ clientAlive
    /\ clientPc = "idle"
    /\ clientAlive' = FALSE
    /\ UNCHANGED << configVars, exitq, readySent, sendErrs >>
    /\ UNCHANGED << pipe, clientPc, nloops, loopPc, timetoken, channels,
                    encoded_channels, url, ctl, readyq, batch, next_timetoken, li,
                    handleVars, queue, yielded, serverVars >>

(* ----------------------------- the server ------------------------------ *)

(* The cursors a response to a request carrying `cur` may return: a real    *)
(* position of the stream (never the cold-start sentinel), not before cur.  *)
(* In a run with limits.zero the server is not trusted: any cursor, "0"     *)
(* included.                                                                *)
ServerTokens(cur) ==
    IF limits.zero THEN 0..MaxTT ELSE {t \in 1..MaxTT : t >= cur}

(* The batches of n messages the server may return; the k-th message it     *)
(* ever hands out carries the message timetoken k.                          *)
Batches(n) ==
    {[i \in 1..n |-> Message(sh[i].route, sh[i].channel, nmsg + i)] :
        sh \in [1..n -> limits.shapes]}

(* --------------------------- SubscribeLoop::run ------------------------ *)

(* The end of a loop task as the supervisor's exit queue sees it: one       *)
(* notification per termination if subscribe_loop_exit_tx was set.  The     *)
(* code that sends it is not part of src/.                                  *)
NotifyExitAlways == exitq' = exitq + 1
NotifyExit == exitq' = IF exit_tx THEN exitq + 1 ELSE exitq

(* The task ends (break, or unwinding after a panic): `self` is dropped,    *)
(* and with it the listeners' senders (see SenderAlive) and the pipe's      *)
(* receive end together with whatever was still queued in it.  channels     *)
(* keeps the value the map had when it was dropped.                         *)
TaskEndsKeepsPipe(l, how) ==
    /\ loopPc' = [loopPc EXCEPT ![l] = how]
    /\ UNCHANGED << ctl, channels >>
    /\ NotifyExit
TaskEnds(l, how) ==
    /\ loopPc' = [loopPc EXCEPT ![l] = how]
    /\ ctl' = [ctl EXCEPT ![l] = <<>>]
    /\ UNCHANGED channels
    /\ NotifyExit

(* select!: the arm `msg = pipe_rx.next()` is ready. *)
ControlReady(l) == ctl[l] # <<>> \/ ControlSendersGone(l)

(* What the arm does with a received control message: `break`, always. *)
ControlStopsOnAddOnly(msg) == msg.type = "Add"
ControlStops(msg) == TRUE

(* select! picks the control arm. *)
LoopControl(l) ==
    /\ loopPc[l] = "poll"
    /\ ControlReady(l)
    /\ IF ctl[l] = <<>> \/ ControlStops(Head(ctl[l]))
       THEN TaskEnds(l, "stopped")
       ELSE /\ ctl' = [ctl EXCEPT ![l] = Tail(@)]
            /\ UNCHANGED << loopPc, channels, exitq >>
    /\ UNCHANGED << readySent, sendErrs >>
    /\ UNCHANGED << clientVars, timetoken, encoded_channels, url, readyq, batch,
                    next_timetoken, li, handleVars, queue, yielded, serverVars >>

(* `if timetoken.t == "0"`: the loop sends Ready before it goes on to the   *)
(* messages of the response.                                                *)
AfterResponseNoReady(tt) == "deliver"
AfterResponse(tt) == IF tt = DefaultTimetoken THEN "ready" ELSE "deliver"

(* `timetoken = next_timetoken;` *)
StoredAfterKept(l, nt) == timetoken[l]
StoredAfter(l, nt) == nt

(* select! picks the response arm and the response is Ok((messages,         *)
(* next_timetoken)); the test `timetoken.t == "0"` follows at once.         *)
LoopResponseOk(l) ==
    /\ loopPc[l] = "poll"
    /\ \E n \in limits.least..limits.batch, nt \in ServerTokens(timetoken[l]) :
          /\ nmsg + n <= limits.msgs
          /\ \E b \in Batches(n) :
                /\ batch' = [batch EXCEPT ![l] = b]
                /\ got' = [got EXCEPT ![l] = @ \o b]
          /\ nmsg' = nmsg + n
          /\ next_timetoken' = [next_timetoken EXCEPT ![l] = nt]
          /\ loopPc' = [loopPc EXCEPT ![l] = AfterResponse(timetoken[l])]
          /\ IF AfterResponse(timetoken[l]) = "ready"
             THEN UNCHANGED timetoken
             ELSE timetoken' = [timetoken EXCEPT ![l] = StoredAfter(l, nt)]
    /\ li' = [li EXCEPT ![l] = 1]
    /\ failed' = [failed EXCEPT ![l] = FALSE]
    /\ UNCHANGED << exitq, readySent, sendErrs >>
    /\ UNCHANGED << clientVars, channels, encoded_channels, url, ctl, readyq,
                    handleVars, queue, yielded >>

(* The cursor of the request after a failed one: `continue` leaves the      *)
(* local `timetoken` as it is.                                              *)
RetryCursorCold(l) == DefaultTimetoken
RetryCursor(l) == timetoken[l]

(* subscribe_request returns Err (a body chunk, UTF-8 or JSON error): the   *)
(* loop logs it and `continue`s with the same URL.  A failure right after a *)
(* failure leaves the loop where it is, so one in a row is modelled.        *)
LoopResponseErr(l) ==
    /\ loopPc[l] = "poll"
    /\ ~failed[l]
    /\ failed' = [failed EXCEPT ![l] = TRUE]
    /\ timetoken' = [timetoken EXCEPT ![l] = RetryCursor(l)]
    /\ url' = [url EXCEPT ![l] = SubscribeUrl(encoded_channels[l], RetryCursor(l))]
    /\ UNCHANGED << exitq, readySent, sendErrs >>
    /\ UNCHANGED << clientVars, loopPc, channels, encoded_channels, ctl,
                    readyq, batch, next_timetoken, li, handleVars, queue, yielded,
                    got, nmsg >>

(* http_client.get(url) fails: `res.unwrap()` in subscribe_request panics   *)
(* and the task unwinds.                                                    *)
LoopConnectError(l) ==
    /\ loopPc[l] = "poll"
    /\ TaskEnds(l, "panicked")
    /\ UNCHANGED << readySent, sendErrs >>
    /\ UNCHANGED << clientVars, timetoken, encoded_channels, url, readyq, batch,
                    next_timetoken, li, handleVars, queue, yielded, serverVars >>

(* self.pipe.tx.send(PipeMessage::Ready).await, then `timetoken =           *)
(* next_timetoken`; a send error breaks out of the loop.                    *)
LoopSendReadyCarriesOn(l) ==
    /\ loopPc[l] = "ready"
    /\ ~clientAlive \/ readyq[l] < PipeCapacity
    /\ readyq' = IF clientAlive THEN [readyq EXCEPT ![l] = @ + 1] ELSE readyq
    /\ readySent' = IF clientAlive THEN [readySent EXCEPT ![l] = @ + 1] ELSE readySent
    /\ timetoken' = [timetoken EXCEPT ![l] = StoredAfter(l, next_timetoken[l])]
    /\ loopPc' = [loopPc EXCEPT ![l] = "deliver"]
    /\ UNCHANGED << channels, ctl, exitq, sendErrs >>
    /\ UNCHANGED << clientVars, encoded_channels, url, batch, next_timetoken, li,
                    handleVars, queue, yielded, serverVars >>
LoopSendReady(l) ==
    /\ loopPc[l] = "ready"
    /\ IF ~clientAlive
       THEN /\ TaskEnds(l, "stopped")
            /\ UNCHANGED << readyq, timetoken, readySent, sendErrs >>
       ELSE /\ readyq[l] < PipeCapacity
            /\ readyq' = [readyq EXCEPT ![l] = @ + 1]
            /\ readySent' = [readySent EXCEPT ![l] = @ + 1]
            /\ timetoken' = [timetoken EXCEPT ![l] = StoredAfter(l, next_timetoken[l])]
            /\ loopPc' = [loopPc EXCEPT ![l] = "deliver"]
            /\ UNCHANGED << channels, ctl, exitq, sendErrs >>
    /\ UNCHANGED << clientVars, encoded_channels, url, batch, next_timetoken, li,
                    handleVars, queue, yielded, serverVars >>

(* channel_tx.send(message).await on a queue whose receiver is alive: it    *)
(* completes once the bounded queue has room.  A send that gave up on a     *)
(* full queue instead would drop the message.                               *)
send_or_drop(h, message) ==
    queue' = [queue EXCEPT ![h] =
                 IF Len(@) < ChannelCapacity THEN Append(@, message) ELSE @]
send_unbounded(h, message) == queue' = [queue EXCEPT ![h] = Append(@, message)]
send(h, message) ==
    /\ Len(queue[h]) < ChannelCapacity
    /\ queue' = [queue EXCEPT ![h] = Append(@, message)]

(* Where the loop is after a send returned Err: the error is logged and the *)
(* `for` loops go on.                                                       *)
AfterSendErrorBreak(l) == "stopped"
AfterSendError(l) == "deliver"

(* One `channel_tx.send(message.clone()).await` of the distribution loops:  *)
(* the listener li of the first undistributed message.  The lookup          *)
(* `self.channels.get_mut(&route).unwrap()` panics on an unknown route; a   *)
(* send to a closed queue is logged; a send to a full queue waits.          *)
LoopDeliver(l) ==
    /\ loopPc[l] = "deliver"
    /\ batch[l] # <<>>
    /\ LET message == Head(batch[l])
           route == RouteOf(message)
       IN IF route \notin DOMAIN channels[l]
          THEN /\ TaskEnds(l, "panicked")
               /\ UNCHANGED << queue, batch, li, sendErrs >>
          ELSE LET listeners == channels[l][route]
                   h == listeners[li[l]]
               IN /\ IF hState[h] = "dropped"
                     THEN /\ sendErrs' = [sendErrs EXCEPT ![l] = IF limits.log THEN @ + 1 ELSE @]
                          /\ loopPc' = [loopPc EXCEPT ![l] = AfterSendError(l)]
                          /\ UNCHANGED queue
                     ELSE /\ send(h, message)
                          /\ UNCHANGED << sendErrs, loopPc >>
                  /\ IF li[l] < Len(listeners)
                     THEN /\ li' = [li EXCEPT ![l] = @ + 1]
                          /\ UNCHANGED batch
                     ELSE /\ li' = [li EXCEPT ![l] = 1]
                          /\ batch' = [batch EXCEPT ![l] = Tail(@)]
                  /\ UNCHANGED << channels, ctl, exitq >>
    /\ UNCHANGED readySent
    /\ UNCHANGED << clientVars, timetoken, encoded_channels, url, readyq,
                    next_timetoken, handleVars, yielded, serverVars >>

(* The batch is distributed: back to the top of `loop`, where the next URL  *)
(* is built from encoded_channels and the stored timetoken.                 *)
LoopNextPoll(l) ==
    /\ loopPc[l] = "deliver"
    /\ batch[l] = <<>>
    /\ loopPc' = [loopPc EXCEPT ![l] = "poll"]
    /\ url' = [url EXCEPT ![l] = SubscribeUrl(encoded_channels[l], timetoken[l])]
    /\ UNCHANGED << exitq, readySent, sendErrs >>
    /\ UNCHANGED << clientVars, timetoken, channels, encoded_channels, ctl, readyq,
                    batch, next_timetoken, li, handleVars, queue, yielded, serverVars >>

Next ==
    \/ \E c \in Channels : Subscribe(c)
    \/ SubscribeReady
    \/ \E h \in Handles : DropSubscription(h)
    \/ \E h \in Handles : poll_next(h)
    \/ DropClient
    \/ \E l \in Loops : LoopControl(l)
    \/ \E l \in Loops : LoopResponseOk(l)
    \/ \E l \in Loops : LoopResponseErr(l)
    \/ \E l \in Loops : LoopConnectError(l)
    \/ \E l \in Loops : LoopSendReady(l)
    \/ \E l \in Loops : LoopDeliver(l)
    \/ \E l \in Loops : LoopNextPoll(l)

Spec == Init /\ [][Next]_vars

(* Fairness of the loop task: the runtime keeps running it, and select!     *)
(* does not let the response arm win for ever over a ready control arm.     *)
FairSpec ==
    /\ Spec
    /\ \A l \in Loops :
          /\ SF_vars(LoopControl(l))
          /\ WF_vars(LoopSendReady(l))
          /\ WF_vars(LoopDeliver(l))
          /\ WF_vars(LoopNextPoll(l))

(* The same with a transport that does not fail for ever: a long-poll that  *)
(* is retried again and again is answered in the end.                       *)
ServedSpec == FairSpec /\ \A l \in Loops : SF_vars(LoopResponseOk(l))

(* A client built with or without subscribe_loop_exit_tx, in a run with one *)
(* message fewer than the typical one.                                      *)
ExitRun == [Typical EXCEPT !.msgs = MaxMsgs - 1, !.batch = MaxMsgs - 1]
ExitInit == \E etx \in BOOLEAN : Start(ExitRun, etx)
ExitSpec == ExitInit /\ [][Next]_vars

(* A run in which the server hands out more messages than a consumer queue *)
(* holds, all of one shape, to a client that subscribes once.               *)
Burst ==
    [loops |-> 1, handles |-> 1, msgs |-> ChannelCapacity + MaxMsgs - 1,
     least |-> 0, batch |-> ChannelCapacity + MaxMsgs - 1,
     shapes |-> {[route |-> ChanA, channel |-> ChanB]}, zero |-> FALSE, log |-> FALSE,
     names |-> Channels]
BurstSpec == Start(Burst, FALSE) /\ [][Next]_vars

(* The same burst to a client that keeps subscribing to one channel and     *)
(* dropping handles until the control queue is full.                        *)
Jam ==
    [Burst EXCEPT !.handles = PipeCapacity \div 2 + 2, !.names = {ChanA},
                  !.msgs = ChannelCapacity + 1, !.least = ChannelCapacity + 1,
                  !.batch = ChannelCapacity + 1]
JamSpec == Start(Jam, FALSE) /\ [][Next]_vars

(* The same burst one message at a time, to a client that subscribes as    *)
(* often as in a typical run.                                               *)
Crowd == [Burst EXCEPT !.handles = MaxHandles, !.batch = 1]
CrowdSpec == Start(Crowd, FALSE) /\ [][Next]_vars

(* A run against a server whose cursors are arbitrary: each response may    *)
(* carry any cursor, the string "0" included.                               *)
AnyCursor == [Typical EXCEPT !.zero = TRUE, !.msgs = MaxMsgs - 1, !.batch = MaxMsgs - 1]
AnyCursorSpec == Start(AnyCursor, FALSE) /\ [][Next]_vars

(* The same server, with a client that subscribes one time fewer.           *)
ReadyAgain == [AnyCursor EXCEPT !.handles = MaxHandles - 1]
ReadyAgainSpec == Start(ReadyAgain, FALSE) /\ [][Next]_vars

(* A run of a client that subscribes one time fewer, with the error log of  *)
(* the loop kept.                                                           *)
Logged == [Typical EXCEPT !.log = TRUE, !.handles = MaxHandles - 1]
LoggedSpec == Start(Logged, FALSE) /\ [][Next]_vars

(* ------------------------- vocabulary of the claims -------------------- *)

(* The handles made for loop l: the one it was spawned with and every one   *)
(* whose subscribe() addressed an Add to it.                                *)
HandlesOf(l) == {h \in Handles : hLoop[h] = l /\ hState[h] # "none"}

(* The handles a loop holds in the listener list of routing key r. *)
ListenersOf(l, r) ==
    IF r \in DOMAIN channels[l]
    THEN {channels[l][r][i] : i \in 1..Len(channels[l][r])}
    ELSE {}

(* What has been put in handle h's queue so far, in order. *)
Delivered(h) == yielded[h] \o queue[h]

(* How often the sequence s holds the message m. *)
Copies(s, m) == Cardinality({i \in 1..Len(s) : s[i] = m})

Elems(s) == {s[i] : i \in 1..Len(s)}

(* In this step loop l takes a control message of the given type from its   *)
(* queue and acts on it (the step is the control arm of select!).           *)
Processes(l, type) ==
    /\ loopPc[l] = "poll"
    /\ ctl[l] # <<>>
    /\ Head(ctl[l]).type = type
    /\ Len(ctl'[l]) < Len(ctl[l])
    /\ loopPc'[l] \in {"poll", "stopped"}

(* ------------------------------- C1 ------------------------------------ *)
(* C1: in every reachable state at most one subscribe loop task of the      *)
(* client is alive, whatever subscribe() calls, handle drops and loop       *)
(* terminations came before.                                                *)
C1_AtMostOneLoop == Cardinality({l \in Loops : Running(l)}) <= 1

(* A second subscribe() was served while the loop of the first was alive. *)
C1_Witness == \E h \in Handles : hVia[h] = "add" /\ Running(hLoop[h])

(* ------------------------------- C2 ------------------------------------ *)
(* C2: whenever the loop is not in the middle of distributing a response,   *)
(* every message it has received in a successful response has exactly one   *)
(* copy in the queue history of every handle registered for its routing     *)
(* key and still held by its consumer; and a message is never in any        *)
(* handle's history while an earlier message of the loop lacks a copy for   *)
(* one of its registered handles.                                           *)
C2_ExactlyOneCopy ==
    \A l \in Loops :
        /\ loopPc[l] \in {"poll", "stopped", "panicked"} =>
              \A i \in 1..Len(got[l]) :
                  \A h \in ListenersOf(l, RouteOf(got[l][i])) :
                      hState[h] \in {"pending", "live"} =>
                          Copies(Delivered(h), got[l][i]) = 1
        /\ \A i, j \in 1..Len(got[l]) :
              (i < j /\ \E g \in Handles : got[l][j] \in Elems(Delivered(g))) =>
                  \A h \in ListenersOf(l, RouteOf(got[l][i])) :
                      hState[h] \in {"pending", "live"} =>
                          got[l][i] \in Elems(Delivered(h))

(* ------------------------------- C3 ------------------------------------ *)
(* C3: a subscribe() that spawned a loop has not returned its handle unless *)
(* it received that loop's Ready, and a Ready is only ever queued after a   *)
(* long-poll of the loop has succeeded.                                     *)
C3_ReturnsAfterReady ==
    /\ \A h \in Handles :
          (hVia[h] = "spawn" /\ hState[h] \in {"live", "dropped"}) => hReady[h]
    /\ \A l \in Loops : readyq[l] > 0 => next_timetoken[l] # DefaultTimetoken

(* ------------------------------- C4 ------------------------------------ *)
(* C4: a handle that subscribe() has returned and that has not been dropped *)
(* has, when its stream is at its end, yielded every message for its        *)
(* channel that its loop received in a response after subscribe() returned. *)
C4_NoPublishLost ==
    \A h \in Handles :
        (StreamEnded(h) /\ h \in ListenersOf(hLoop[h], hName[h])) =>
            \A i \in 1..Len(got[hLoop[h]]) :
                (i > hSince[h] /\ RouteOf(got[hLoop[h]][i]) = hName[h]) =>
                    got[hLoop[h]][i] \in Elems(yielded[h])

(* ------------------------------- C5 ------------------------------------ *)
(* C5: once the loop has processed the Add of a subscribe(c), its channel   *)
(* set contains c.                                                          *)
C5_AddJoinsChannelSet ==
    [][\A l \in Loops :
          Processes(l, "Add") => Head(ctl[l]).name \in DOMAIN channels'[l]]_vars

(* ------------------------------- C6 ------------------------------------ *)
(* C6: when the loop, in the middle of a long-poll, takes the Add of a new  *)
(* channel, it keeps running and the request it issues next carries the     *)
(* old channels and the new one in its encoded channel list.                *)
C6_AddReissuesPoll ==
    [][\A l \in Loops :
          (Processes(l, "Add") /\ Head(ctl[l]).name \notin DOMAIN channels[l]) =>
              /\ loopPc'[l] = "poll"
              /\ url'[l].channels \in
                    {JoinEncoded(o) :
                        o \in KeyOrders(DOMAIN channels[l] \cup {Head(ctl[l]).name})}]_vars

(* ------------------------------- C7 ------------------------------------ *)
(* C7: a Drop stops the loop only if no handle made for that loop is still  *)
(* alive.                                                                   *)
C7_DropStopsOnlyLastHandle ==
    [][\A l \in Loops :
          (Processes(l, "Drop") /\ loopPc'[l] = "stopped") =>
              \A h \in HandlesOf(l) : hState[h] # "live"]_vars

(* ------------------------------- C8 ------------------------------------ *)
(* C8: once every handle made for a running loop has been dropped, the loop *)
(* eventually terminates, and a terminated loop stays terminated and issues *)
(* no further request.                                                      *)
LastHandleDropped(l) ==
    /\ Running(l)
    /\ HandlesOf(l) # {}
    /\ \A h \in HandlesOf(l) : hState[h] = "dropped"

C8_LastDropTerminates ==
    /\ \A l \in Loops : LastHandleDropped(l) ~> Terminated(l)
    /\ [][\A l \in Loops :
             Terminated(l) => (loopPc'[l] = loopPc[l] /\ url'[l] = url[l])]_vars

(* The loop has taken the Drop of its only handle and stopped. *)
C8_Witness ==
    \E l \in Loops :
        /\ loopPc[l] = "stopped"
        /\ HandlesOf(l) # {}
        /\ \A h \in HandlesOf(l) : hState[h] = "dropped" /\ hVia[h] = "spawn"

(* ------------------------------- C9 ------------------------------------ *)
(* C9: when the loop has no control message left to process and has not     *)
(* failed, its channel set holds the channels of the live handles made for  *)
(* it and none of the channels whose handles have all been dropped.         *)
C9_DropRemovesOnlyItsChannel ==
    \A l \in Loops :
        (loopPc[l] \in {"poll", "stopped"} /\ ctl[l] = <<>>
            /\ \E h \in HandlesOf(l) : hState[h] = "dropped") =>
            \A h \in HandlesOf(l) :
                IF hState[h] = "live"
                THEN Running(l) /\ hName[h] \in DOMAIN channels[l]
                ELSE (\A g \in HandlesOf(l) : hName[g] = hName[h] => hState[g] = "dropped")
                        => ~(Running(l) /\ hName[h] \in DOMAIN channels[l])

(* ------------------------------- C10 ----------------------------------- *)
(* C10: no subscribe() call addresses an Add to a loop that has left its    *)
(* `loop` by a break: when subscribe() looks for a loop, the client holds   *)
(* none that has terminated that way.                                       *)
C10_FreshLoopAfterTermination ==
    \A h \in Handles : ~(hVia[h] = "add_failed" /\ loopPc[hLoop[h]] = "stopped")

SendsNextTo(l, h) ==
    /\ loopPc[l] = "deliver"
    /\ batch[l] # <<>>
    /\ RouteOf(Head(batch[l])) \in DOMAIN channels[l]
    /\ h = channels[l][RouteOf(Head(batch[l]))][li[l]]
    /\ hState[h] # "dropped"

(* ... and that handle's queue is at capacity. *)
Blocked(l) == \E h \in Handles : SendsNextTo(l, h) /\ Len(queue[h]) = ChannelCapacity

(* The messages of the sequence s that are routed to the key r. *)
RoutedTo(s, r) == SelectSeq(s, LAMBDA m : RouteOf(m) = r)

(* C12: no consumer queue ever holds more than its capacity; what a held    *)
(* handle has been sent, followed by what the response in hand still has    *)
(* for it, is everything its loop received for its key (nothing is dropped  *)
(* at a full queue); while the loop waits on a full queue no step moves it  *)
(* on, delivers anything or issues a request; and as soon as the queue has  *)
(* room again the waiting send can go ahead, with the same message.         *)
C12_FullQueueBlocks ==
    /\ [](\A h \in Handles : Len(queue[h]) <= ChannelCapacity)
    /\ [](\A l \in Loops : \A r \in DOMAIN channels[l] : \A h \in ListenersOf(l, r) :
            (Running(l) /\ hState[h] \in {"pending", "live"}) =>
                Delivered(h) \o RoutedTo(batch[l], r) = RoutedTo(got[l], r))
    /\ [](\A l \in Loops : \A h \in Handles :
            (SendsNextTo(l, h) /\ Len(queue[h]) < ChannelCapacity) => ENABLED LoopDeliver(l))
    /\ [][\A l \in Loops :
             Blocked(l) =>
                 /\ loopPc'[l] = loopPc[l] /\ batch'[l] = batch[l] /\ url'[l] = url[l]
                 /\ \A h \in Handles : Len(queue'[h]) <= Len(queue[h])]_vars
    /\ [][\A l \in Loops : \A h \in Handles :
             (SendsNextTo(l, h) /\ Len(queue'[h]) > Len(queue[h])) =>
                 queue'[h] = Append(queue[h], Head(batch[l]))]_vars

(* The loop waits on the full queue of a handle that has taken nothing yet, *)
(* with the last message of the run in hand.                                *)
C12_Witness ==
    \E l \in Loops : \E h \in Handles :
        /\ Blocked(l) /\ SendsNextTo(l, h)
        /\ yielded[h] = <<>>
        /\ nmsg = ChannelCapacity + 1

(* ------------------------------- C13 ----------------------------------- *)
IsPrefix(s, t) == Len(s) <= Len(t) /\ SubSeq(t, 1, Len(s)) = s

(* The messages of loop l from its k-th on that are routed to the key r. *)
RoutedSince(l, k, r) == RoutedTo(SubSeq(got[l], k + 1, Len(got[l])), r)

(* C13: what a held handle has been sent is, in order, a leading part of    *)
(* the messages its loop received for its channel; and when the loop is not *)
(* in the middle of a response, two held handles that subscribe() returned  *)
(* for the same channel of the same loop have been sent the same messages   *)
(* among those received since both were returned.                           *)
C13_ServerOrderSameForAll ==
    /\ \A l \in Loops : \A r \in DOMAIN channels[l] : \A h \in ListenersOf(l, r) :
           hState[h] \in {"pending", "live"} => IsPrefix(Delivered(h), RoutedTo(got[l], r))
    /\ \A g, h \in Handles :
           (/\ g # h /\ hState[g] = "live" /\ hState[h] = "live"
            /\ hLoop[g] = hLoop[h] /\ hName[g] = hName[h]
            /\ loopPc[hLoop[h]] \in {"poll", "stopped", "panicked"}) =>
               \A m \in Elems(RoutedSince(hLoop[h], IF hSince[g] > hSince[h] THEN hSince[g]
                                                     ELSE hSince[h], hName[h])) :
                   m \in Elems(Delivered(g)) <=> m \in Elems(Delivered(h))

(* ------------------------------- C14 ----------------------------------- *)
(* In this step a long-poll of loop l fails: subscribe_request returns Err, *)
(* or the request cannot be sent at all.                                    *)
PollFails(l) ==
    /\ loopPc[l] = "poll"
    /\ \/ failed'[l] /\ ~failed[l]
       \/ loopPc'[l] = "panicked"

(* C14: a failed long-poll leaves the loop polling, with the timetoken and  *)
(* the channel set it had and the same URL for the retry, so that the       *)
(* timetoken moves only at a successful response.                           *)
C14_FailedPollRetries ==
    [][\A l \in Loops :
          PollFails(l) =>
              /\ loopPc'[l] = "poll"
              /\ timetoken'[l] = timetoken[l]
              /\ channels'[l] = channels[l]
              /\ encoded_channels'[l] = encoded_channels[l]
              /\ url'[l] = url[l]]_vars

(* ------------------------------- C15 ----------------------------------- *)
(* C15: a loop has sent Ready at most once, and it has sent it by the time  *)
(* it distributes the messages of a response, whatever cursors the server   *)
(* returns.                                                                 *)
C15_ReadyExactlyOnce ==
    \A l \in Loops :
        /\ readySent[l] <= 1
        /\ loopPc[l] = "deliver" => readySent[l] = 1

(* ------------------------------- C16 ----------------------------------- *)
(* C16: no handle of a loop has been sent a message while the loop, started *)
(* with the cursor "0", has not yet sent Ready.                             *)
C16_ReadyBeforeDelivery ==
    \A l \in Loops : \A h \in HandlesOf(l) :
        Delivered(h) # <<>> => readySent[l] >= 1

(* A message of the first response is in the queue of the handle whose      *)
(* subscribe() is still waiting to read the Ready that was sent before it.  *)
C16_Witness ==
    \E h \in Handles :
        /\ hState[h] = "pending" /\ queue[h] # <<>>
        /\ readySent[hLoop[h]] = 1 /\ readyq[hLoop[h]] = 1

(* ------------------------------- C17 ----------------------------------- *)
(* C17: once a loop has terminated, however it did, no sender is left for   *)
(* the consumer queue of any handle made for it, so that next() on such a   *)
(* handle can take what is queued and finds the end of the stream when the  *)
(* queue is empty; and the step that ends the loop leaves what is queued in *)
(* place.                                                                   *)
C17_ExitClosesQueues ==
    /\ [](\A l \in Loops : \A h \in HandlesOf(l) :
            (Terminated(l) /\ hState[h] \in {"pending", "live"}) =>
                /\ ~SenderAlive(h)
                /\ hState[h] = "live" =>
                       IF queue[h] = <<>> THEN StreamEnded(h) ELSE ENABLED poll_next(h))
    /\ [][\A l \in Loops : (Running(l) /\ Terminated(l)') => queue' = queue]_vars

(* A handle outlives its loop with a message still queued, after having     *)
(* taken one.                                                               *)
C17_Witness ==
    \E h \in Handles :
        /\ hState[h] = "live" /\ Terminated(hLoop[h])
        /\ queue[h] # <<>> /\ yielded[h] # <<>>

C19_SubscribeAlwaysReturns ==
    /\ [][\A h \in Handles :
             (hState[h] = "none" /\ hState'[h] # "none") =>
                 /\ h = nh'
                 /\ \/ hState'[h] = "live" /\ clientPc' = "idle"
                    \/ hState'[h] = "pending" /\ clientPc' = "wait_ready"]_vars
    /\ [][(clientPc = "wait_ready" /\ clientPc' = "idle") =>
             \A h \in Handles : hState[h] = "pending" => hState'[h] = "live"]_vars
    /\ []((clientPc = "wait_ready" /\ Terminated(pipe)) => ENABLED SubscribeReady)
    /\ []((clientAlive /\ clientPc = "idle" /\ nh < limits.handles
              /\ (~HasPipe \/ Terminated(pipe) \/ Len(ctl[pipe]) < PipeCapacity)) =>
             ENABLED (\E c \in Channels : Subscribe(c)))
    /\ [](\A h \in Handles : hVia[h] = "add_failed" => hState[h] \in {"live", "dropped"})

(* subscribe() has returned one handle after its loop died before Ready and *)
(* another whose Add could not be sent to that dead loop.                   *)
C19_Witness ==
    \E g, h \in Handles :
        /\ hVia[g] = "spawn" /\ ~hReady[g] /\ hState[g] = "live"
        /\ hVia[h] = "add_failed" /\ hState[h] = "live"

(* ------------------------------- C20 ----------------------------------- *)
(* C20: the step that drops a handle puts Drop(its channel name) at the end *)
(* of its loop's control queue, or nothing if that loop has terminated; it  *)
(* ends with the handle dropped either way and changes no other handle, no  *)
(* queue of another handle, no loop and nothing of the client.              *)
C20_DropIsBestEffort ==
    [][\A h \in Handles :
          (hState[h] = "live" /\ hState'[h] = "dropped") =>
              /\ ctl'[hLoop[h]] =
                     IF Terminated(hLoop[h]) THEN ctl[hLoop[h]]
                     ELSE Append(ctl[hLoop[h]], [type |-> "Drop", name |-> hName[h], tx |-> 0])
              /\ \A l \in Loops \ {hLoop[h]} : ctl'[l] = ctl[l]
              /\ \A g \in Handles \ {h} :
                     hState'[g] = hState[g] /\ queue'[g] = queue[g] /\ yielded'[g] = yielded[g]
              /\ UNCHANGED << pipe, clientAlive, clientPc, nloops, loopPc, channels,
                              timetoken, readyq, exitq >>]_vars

(* A handle has been dropped after its loop had terminated (its Drop was    *)
(* refused) while another handle of that loop is still held.                *)
C20_Witness ==
    \E g, h \in Handles :
        /\ g # h /\ hLoop[g] = hLoop[h]
        /\ hState[h] = "dropped" /\ hState[g] = "live"
        /\ Terminated(hLoop[h]) /\ hVia[h] = "add_failed"

(* ------------------------------- C21 ----------------------------------- *)
(* In this step the control arm of loop l wins over the request in flight   *)
(* and takes a message from the control queue.                              *)
ControlWins(l) ==
    /\ loopPc[l] = "poll"
    /\ ctl[l] # <<>>
    /\ Len(ctl'[l]) < Len(ctl[l])

(* Some held handle is in the listener lists of loop l. *)
HasLiveListener(l) ==
    \E r \in DOMAIN channels[l] : \E h \in ListenersOf(l, r) : hState[h] = "live"

(* C21: when a control message wins over the long-poll in flight while a    *)
(* held handle is registered, the response in flight hands out nothing and  *)
(* moves no cursor, and the loop goes on to a long-poll with the cursor of  *)
(* the one it gave up, keeping that handle registered.                      *)
C21_DiscardedResponseNotLost ==
    [][\A l \in Loops :
          (ControlWins(l) /\ HasLiveListener(l)) =>
              /\ nmsg' = nmsg /\ got'[l] = got[l]
              /\ timetoken'[l] = timetoken[l]
              /\ loopPc'[l] = "poll" /\ url'[l].tt = url[l].tt
              /\ \A r \in DOMAIN channels[l] : \A h \in ListenersOf(l, r) :
                     hState[h] = "live" => r \in DOMAIN channels'[l]]_vars

(* ------------------------------- C22 ----------------------------------- *)
(* C22: taking an Add, or a Drop while another handle of the loop is still  *)
(* held, leaves the stored timetoken as it was, and the long-poll the loop  *)
(* issues next carries that timetoken.                                      *)
C22_ControlKeepsTimetoken ==
    [][\A l \in Loops :
          (\/ Processes(l, "Add")
           \/ Processes(l, "Drop") /\ \E h \in HandlesOf(l) : hState[h] = "live") =>
              /\ timetoken'[l] = timetoken[l]
              /\ Running(l)'
              /\ url'[l].tt = timetoken[l]]_vars

(* ------------------------------- C23 ----------------------------------- *)
(* C23: whenever a loop is past a successful response and its Ready, its    *)
(* stored timetoken is the cursor of its latest successful response (the    *)
(* cursor "0" before the first), whether or not that response had messages; *)
(* and the request in flight carries the stored timetoken.                  *)
C23_TimetokenIsLatestCursor ==
    \A l \in Loops :
        /\ loopPc[l] \in {"poll", "deliver"} => timetoken[l] = next_timetoken[l]
        /\ loopPc[l] = "poll" => url[l].tt = timetoken[l]

(* A loop polls with the cursor of a response, and no response of its has   *)
(* carried a message.                                                       *)
C23_Witness ==
    \E l \in Loops :
        /\ loopPc[l] = "poll" /\ got[l] = <<>>
        /\ readySent[l] = 1 /\ url[l].tt = MaxTT

(* ------------------------------- C24 ----------------------------------- *)
(* C24: every message a handle has been sent carries the handle's channel   *)
(* name as its route, or has no route and carries it as its channel; and a  *)
(* send of the message in hand goes to the listener at the loop's position  *)
(* in the list of that key, after every listener before it in the list has  *)
(* been served.                                                             *)
C24_RouteThenChannel ==
    /\ [](\A h \in Handles : \A m \in Elems(Delivered(h)) :
            IF m.route # NoRoute THEN m.route = hName[h] ELSE m.channel = hName[h])
    /\ [][\A l \in Loops : \A h \in Handles :
             (loopPc[l] = "deliver" /\ hLoop[h] = l /\ Len(queue'[h]) > Len(queue[h])) =>
                 LET m == Head(batch[l])
                     key == IF m.route # NoRoute THEN m.route ELSE m.channel
                 IN /\ key \in DOMAIN channels[l]
                    /\ channels[l][key][li[l]] = h
                    /\ \A i \in 1..(li[l] - 1) :
                           LET g == channels[l][key][i]
                           IN hState[g] = "dropped" \/ m \in Elems(Delivered(g))]_vars

(* A handle on "a" holds a message whose channel is another name and whose  *)
(* route is "a", and has taken a message before it.                         *)
C24_Witness ==
    \E h \in Handles :
        /\ hName[h] = ChanA /\ yielded[h] # <<>>
        /\ \E i \in 1..Len(queue[h]) : queue[h][i].route = ChanA /\ queue[h][i].channel = ChanB

(* ------------------------------- C25 ----------------------------------- *)
(* The send the loop is about to make goes to a handle that is gone. *)
SendWillFail(l) ==
    /\ loopPc[l] = "deliver"
    /\ batch[l] # <<>>
    /\ RouteOf(Head(batch[l])) \in DOMAIN channels[l]
    /\ hState[channels[l][RouteOf(Head(batch[l]))][li[l]]] = "dropped"

(* C25: a send that fails on a closed consumer queue is logged and nothing  *)
(* more: the loop stays in its distribution, moves on to the next listener  *)
(* of the message or, after the last, to the next message of the batch, and *)
(* when the batch is done it can issue the next long-poll.                  *)
C25_ClosedQueueIsSkipped ==
    /\ [][\A l \in Loops :
             (SendWillFail(l) /\ sendErrs'[l] # sendErrs[l]) =>
                 LET listeners == channels[l][RouteOf(Head(batch[l]))]
                 IN /\ loopPc'[l] = "deliver"
                    /\ channels'[l] = channels[l]
                    /\ IF li[l] < Len(listeners)
                       THEN li'[l] = li[l] + 1 /\ batch'[l] = batch[l]
                       ELSE li'[l] = 1 /\ batch'[l] = Tail(batch[l])]_vars
    /\ [](\A l \in Loops :
            (loopPc[l] = "deliver" /\ batch[l] = <<>>) => ENABLED LoopNextPoll(l))

(* After two failed sends the loop is polling again. *)
C25_Witness ==
    \E l \in Loops :
        /\ loopPc[l] = "poll" /\ sendErrs[l] = 2
        /\ Len(got[l]) = 2 /\ url[l].tt = timetoken[l]

(* ------------------------------- C26 ----------------------------------- *)
(* The listeners of key r in loop l whose handle is gone and whose Drop is  *)
(* waiting in the loop's control queue.                                     *)
AwaitingRemoval(l, r) ==
    {h \in ListenersOf(l, r) :
        /\ hState[h] = "dropped"
        /\ \E i \in 1..Len(ctl[l]) : ctl[l][i].type = "Drop" /\ ctl[l][i].name = r}

C27_ReadyFailureIsFatal ==
    /\ [][\A l \in Loops :
             (loopPc[l] = "ready" /\ ~clientAlive /\ loopPc'[l] # "ready") =>
                 /\ loopPc'[l] = "stopped"
                 /\ timetoken'[l] = timetoken[l]
                 /\ queue' = queue
                 /\ readyq'[l] = readyq[l]]_vars
    /\ [](\A l \in Loops :
            (loopPc[l] = "stopped" /\ batch[l] # <<>>) =>
                \A h \in Handles : \A i \in 1..Len(batch[l]) :
                    batch[l][i] \notin Elems(Delivered(h)))

(* A loop has stopped at its Ready send with messages in hand and a handle  *)
(* still held that they were routed to.                                     *)
C27_Witness ==
    \E l \in Loops : \E h \in HandlesOf(l) :
        /\ loopPc[l] = "stopped" /\ batch[l] # <<>>
        /\ hState[h] = "live" /\ RouteOf(Head(batch[l])) = hName[h]
        /\ timetoken[l] = DefaultTimetoken /\ next_timetoken[l] # DefaultTimetoken

(* ------------------------------- C28 ----------------------------------- *)
(* C28: a running loop has at least one channel in its table and at least   *)
(* one listener under every channel of it, and the URL of every long-poll   *)
(* it has in flight names at least one channel.                             *)
C28_RunningLoopHasListeners ==
    \A l \in Loops :
        Running(l) =>
            /\ DOMAIN channels[l] # {}
            /\ \A r \in DOMAIN channels[l] : Len(channels[l][r]) >= 1
            /\ url[l].channels # <<>>
            /\ encoded_channels[l] # <<>>

(* A loop is polling again after a delivery while the only handle made for  *)
(* it has gone and the Drop is still waiting in its control queue.          *)
C28_Witness ==
    \E l \in Loops :
        /\ loopPc[l] = "poll" /\ got[l] # <<>>
        /\ HandlesOf(l) # {} /\ \A h \in HandlesOf(l) : hState[h] = "dropped"
        /\ \E r \in DOMAIN channels[l] : AwaitingRemoval(l, r) # {}

(* ------------------------------- C29 ----------------------------------- *)
(* The percent-encoded form of each channel name, written out. *)
EncodedName(c) == IF c = ChanA THEN <<"a">> ELSE <<"b", "%", "2", "D">>

(* The encoded names of the channels in the order o with %2C between them. *)
RECURSIVE JoinedNames(_)
JoinedNames(o) ==
    IF o = <<>> THEN <<>>
    ELSE EncodedName(Head(o)) \o
         (IF Tail(o) = <<>> THEN <<>> ELSE <<"%", "2", "C">> \o JoinedNames(Tail(o)))

ListenerSlots(h) ==
    {x \in Loops \X Channels \X (1..MaxHandles) :
        /\ x[2] \in DOMAIN channels[x[1]]
        /\ x[3] <= Len(channels[x[1]][x[2]])
        /\ channels[x[1]][x[2]][x[3]] = h}
AddsInFlight(h) ==
    {x \in Loops \X (1..PipeCapacity) :
        /\ x[2] <= Len(ctl[x[1]])
        /\ ctl[x[1]][x[2]].type = "Add"
        /\ ctl[x[1]][x[2]].tx = h}

(* C30: no consumer queue holds more than ten messages; the queue of a      *)
(* handle not yet made is empty and nothing holds a sender for it, so each  *)
(* subscribe() starts on a queue of its own; the sender of a queue is held  *)
(* in one place at most, under the channel name of its handle; and no step  *)
(* puts a message in the queues of two handles.                             *)
C30_OneBoundedQueuePerHandle ==
    /\ [](\A h \in Handles :
            /\ Len(queue[h]) <= 10
            /\ hState[h] = "none" =>
                   /\ queue[h] = <<>> /\ yielded[h] = <<>>
                   /\ ListenerSlots(h) = {} /\ AddsInFlight(h) = {}
            /\ Cardinality(ListenerSlots(h)) + Cardinality(AddsInFlight(h)) <= 1
            /\ \A x \in ListenerSlots(h) : x[2] = hName[h])
    /\ [][\A g, h \in Handles :
             (g # h /\ Len(queue'[g]) > Len(queue[g])) => Len(queue'[h]) <= Len(queue[h])]_vars

(* One handle's queue is full while a second handle, made later, is held    *)
(* with an empty queue of its own.                                          *)
C30_Witness ==
    \E g, h \in Handles :
        /\ g # h
        /\ hState[g] = "live" /\ Len(queue[g]) = ChannelCapacity
        /\ hState[h] = "live" /\ queue[h] = <<>> /\ yielded[h] = <<>>

(* ------------------------------- C31 ----------------------------------- *)
(* The first undistributed message of loop l has a routing key that is no   *)
(* key of the loop's channel map.                                           *)
UnknownRouteNext(l) ==
    /\ loopPc[l] = "deliver"
    /\ batch[l] # <<>>
    /\ RouteOf(Head(batch[l])) \notin DOMAIN channels[l]

(* C31: when the loop comes to a message whose routing key is no key of its *)
(* channel map, its step skips that message and nothing else: the loop      *)
(* stays in its distribution with the rest of the batch, no queue changes,  *)
(* and so the loop never ends with messages of a response left over.        *)
C31_UnknownRouteIsSkipped ==
    [][\A l \in Loops :
          (UnknownRouteNext(l) /\ <<loopPc[l], batch[l]>>' # <<loopPc[l], batch[l]>>) =>
              /\ loopPc'[l] = "deliver"
              /\ batch'[l] = Tail(batch[l])
              /\ queue' = queue]_vars

(* ------------------------------- C32 ----------------------------------- *)
(* C32: of two handles made for the same channel of the same loop, one gone *)
(* and one held, once the loop has no control message left to take and has  *)
(* not panicked, the held one is a listener of the running loop and the     *)
(* gone one is not.                                                         *)
C32_DropSparesTheOtherListener ==
    \A g, h \in Handles :
        (/\ g # h /\ hLoop[g] = hLoop[h] /\ hName[g] = hName[h]
         /\ hState[g] = "dropped" /\ hState[h] = "live"
         /\ ctl[hLoop[h]] = <<>> /\ loopPc[hLoop[h]] # "panicked") =>
            /\ Running(hLoop[h])
            /\ h \in ListenersOf(hLoop[h], hName[h])
            /\ g \notin ListenersOf(hLoop[h], hName[h])

(* ------------------------------- C33 ----------------------------------- *)
(* The loop waits on the full consumer queue of the held handle h: only the *)
(* holder of h can let it go on, by taking a message or dropping h.         *)
WaitsOnHolder(l, h) ==
    SendsNextTo(l, h) /\ hState[h] = "live" /\ Len(queue[h]) = ChannelCapacity

(* C33: whenever the loop waits on the full queue of a held handle, a send  *)
(* to its control queue completes: the holder's drop of that handle can go  *)
(* through, so the holder is never left waiting, in a drop or a             *)
(* subscribe(), on the loop that is waiting on the holder.                  *)
C33_NoControlJam ==
    \A l \in Loops : \A h \in Handles :
        WaitsOnHolder(l, h) => CanSendControl(l) /\ ENABLED DropSubscription(h)

(* ------------------------------- C34 ----------------------------------- *)
(* The task of loop l has a step it can take. *)
LoopCanStep(l) ==
    ENABLED (\/ LoopControl(l) \/ LoopResponseOk(l) \/ LoopResponseErr(l)
             \/ LoopConnectError(l) \/ LoopSendReady(l) \/ LoopDeliver(l)
             \/ LoopNextPoll(l))

(* The client is free to call subscribe() and the call would address its    *)
(* Add to the loop it holds.                                                *)
SubscribeWouldAdd == clientAlive /\ clientPc = "idle" /\ nh < limits.handles /\ HasPipe

(* C34: a subscribe() call is never left waiting on a loop that cannot move: *)
(* while it waits for Ready, either the wait can end or the loop has a step  *)
(* to take; and when it has an Add to send, either the send completes or    *)
(* the loop has a step to take.                                             *)
C34_SubscribeTerminates ==
    /\ clientPc = "wait_ready" => (ENABLED SubscribeReady \/ LoopCanStep(pipe))
    /\ SubscribeWouldAdd => (CanSendControl(pipe) \/ LoopCanStep(pipe))

(* ------------------------------- C35 ----------------------------------- *)
(* The routing key a message is published under. *)
PublishedUnder(m) == IF m.route = NoRoute THEN m.channel ELSE m.route

(* C35: everything a handle has been sent was received by its own loop      *)
(* under the handle's channel name; a step that puts a message in a         *)
(* handle's queue puts there the message in hand of a running loop,         *)
(* published under that name; and the queue of a handle that is gone, or    *)
(* whose loop has ended, takes nothing more.                                *)
C35_RoutingIsolation ==
    /\ [](\A h \in Handles : \A m \in Elems(Delivered(h)) :
            PublishedUnder(m) = hName[h] /\ m \in Elems(got[hLoop[h]]))
    /\ [][\A h \in Handles :
             Len(queue'[h]) > Len(queue[h]) =>
                 /\ hState[h] \in {"pending", "live"}
                 /\ loopPc[hLoop[h]] = "deliver"
                 /\ queue'[h] = Append(queue[h], Head(batch[hLoop[h]]))
                 /\ PublishedUnder(Head(batch[hLoop[h]])) = hName[h]]_vars
    /\ [][\A h \in Handles :
             (hState[h] = "dropped" \/ (hState[h] = "live" /\ Terminated(hLoop[h]))) =>
                 Len(queue'[h]) <= Len(queue[h])]_vars

(* A held handle has been sent a message of a response in which its loop    *)
(* also received a message published under another name.                    *)
C35_Witness ==
    \E h \in Handles :
        /\ hState[h] = "live" /\ Delivered(h) # <<>>
        /\ \E m \in Elems(got[hLoop[h]]) : PublishedUnder(m) # hName[h]

(* ------------------------------- C36 ----------------------------------- *)
(* C36: a loop that has a long-poll in flight and a held handle registered  *)
(* gets, in the end, a response to distribute, unless the handle goes away  *)
(* or the task panics first: the control messages it takes on the way only  *)
(* cancel requests, they do not end the polling.                            *)
C36_ControlCannotStarveDelivery ==
    \A l \in Loops :
        (loopPc[l] = "poll" /\ HasLiveListener(l)) ~>
            (loopPc[l] \in {"ready", "deliver", "panicked"} \/ ~HasLiveListener(l))

====
